---- MODULE Spec2Model ----
(***************************************************************************)
(* Model of system/cups_lpadmin.py: the CUPSPrinter class and main().      *)
(*                                                                         *)
(* Text is a sequence of lexemes.  A lexeme is either one of the           *)
(* delimiter characters the program looks at (" ", "\n", "=", "/", ":",    *)
(* "*", "'") or a maximal run of other characters (a word).  Two texts     *)
(* are the same Python string exactly when they are the same sequence.     *)
(* Python's None is the text None below, which no command emits and no     *)
(* parameter carries as a value.                                           *)
(*                                                                         *)
(* The printing subsystem (lpstat, lpoptions, lpinfo, lpadmin) is the      *)
(* environment: one queue, named by the dest parameter.                    *)
(***************************************************************************)
EXTENDS Integers, Sequences, FiniteSets, TLC

None == <<"<None>">>
NoRc == -1

Truthy(s) == s # None /\ s # <<>>

Range(f) == {f[i] : i \in DOMAIN f}

(* ------------------------------ str helpers --------------------------- *)

\* sub in s
Contains(s, sub) ==
    \E i \in 1..(Len(s) - Len(sub) + 1) : SubSeq(s, i, i + Len(sub) - 1) = sub

\* index of the first occurrence of the lexeme c in s, 0 when there is none
IndexOf(s, c) ==
    IF \E i \in 1..Len(s) : s[i] = c
    THEN CHOOSE i \in 1..Len(s) : s[i] = c /\ \A j \in 1..(i - 1) : s[j] # c
    ELSE 0

\* s.split(c, 1)
Split1(s, c) ==
    LET i == IndexOf(s, c)
    IN IF i = 0 THEN <<s>> ELSE <<SubSeq(s, 1, i - 1), SubSeq(s, i + 1, Len(s))>>

RECURSIVE LStrip(_, _)
LStrip(s, chars) ==
    IF s # <<>> /\ Head(s) \in chars THEN LStrip(Tail(s), chars) ELSE s

RECURSIVE RStrip(_, _)
RStrip(s, chars) ==
    IF s # <<>> /\ s[Len(s)] \in chars THEN RStrip(SubSeq(s, 1, Len(s) - 1), chars) ELSE s

\* s.strip(chars)
StripChars(s, chars) == RStrip(LStrip(s, chars), chars)

Whitespace == {" ", "\n"}

\* s.strip()
Strip(s) == StripChars(s, Whitespace)

\* s.splitlines()
RECURSIVE SplitLines(_)
SplitLines(s) ==
    IF s = <<>> THEN <<>>
    ELSE LET i == IndexOf(s, "\n")
         IN IF i = 0 THEN <<s>>
            ELSE <<SubSeq(s, 1, i - 1)>> \o SplitLines(SubSeq(s, i + 1, Len(s)))

\* shlex.split(s): whitespace separates tokens, single quotes group
RECURSIVE ShlexRec(_, _, _, _, _)
ShlexRec(s, i, cur, open, inq) ==
    IF i > Len(s) THEN (IF open THEN <<cur>> ELSE <<>>)
    ELSE IF inq
         THEN IF s[i] = "'" THEN ShlexRec(s, i + 1, cur, TRUE, FALSE)
              ELSE ShlexRec(s, i + 1, Append(cur, s[i]), TRUE, TRUE)
         ELSE IF s[i] = "'" THEN ShlexRec(s, i + 1, cur, TRUE, TRUE)
              ELSE IF s[i] \in Whitespace
                   THEN (IF open THEN <<cur>> ELSE <<>>)
                        \o ShlexRec(s, i + 1, <<>>, FALSE, FALSE)
                   ELSE ShlexRec(s, i + 1, Append(cur, s[i]), TRUE, FALSE)

ShlexSplit(s) == ShlexRec(s, 1, <<>>, FALSE, FALSE)

\* sep.join(parts)
RECURSIVE Join(_, _)
Join(parts, sep) ==
    IF parts = <<>> THEN <<>>
    ELSE IF Len(parts) = 1 THEN parts[1]
    ELSE parts[1] \o sep \o Join(Tail(parts), sep)

\* a dict built by assigning kvs[1], kvs[2], ... in order (later wins)
RECURSIVE DictOf(_)
DictOf(kvs) ==
    IF kvs = <<>> THEN <<>>
    ELSE LET n    == Len(kvs)
             rest == DictOf(SubSeq(kvs, 1, n - 1))
         IN [k \in (DOMAIN rest) \cup {kvs[n][1]} |->
                IF k = kvs[n][1] THEN kvs[n][2] ELSE rest[k]]

(* ------------------------ CUPSPrinter: construction ------------------- *)

SchemeSep == <<":", "/", "/">>

\* a slip: the synthesized lpd URI left without its closing slash
CUPSPrinter_NoSlash(p) ==
    [destination |-> p.dest,
     uri         |-> IF Truthy(p.uri) /\ ~Contains(p.uri, SchemeSep)
                     THEN <<"lpd", ":", "/", "/">> \o p.uri
                     ELSE p.uri,
     enabled     |-> p.enabled,
     shared      |-> p.shared,
     model       |-> p.model,
     info        |-> p.info,
     location    |-> p.location,
     options     |-> p.options]

\* CUPSPrinter.__init__: the fields of self from module.params
CUPSPrinter(p) ==
    [destination |-> p.dest,
     uri         |-> IF Truthy(p.uri) /\ ~Contains(p.uri, SchemeSep)
                     THEN <<"lpd", ":", "/", "/">> \o p.uri \o <<"/">>
                     ELSE p.uri,
     enabled     |-> p.enabled,
     shared      |-> p.shared,
     model       |-> p.model,
     info        |-> p.info,
     location    |-> p.location,
     options     |-> p.options]

(* ------------------------ CUPSPrinter: command lines ------------------ *)

W(w) == <<w>>

RECURSIVE OptionArgs(_, _)
OptionArgs(options, keys) ==
    IF keys = {} THEN <<>>
    ELSE LET k == CHOOSE x \in keys : TRUE
         IN <<W("-o"), k \o <<"=">> \o options[k]>> \o OptionArgs(options, keys \ {k})

\* the cmd of _get_installed_drivers
LpinfoCmd == <<W("lpinfo"), W("-l"), W("-m")>>

\* a slip: -E passed whatever enabled says
InstallPrinterCmd_AlwaysEnable(self) ==
    <<W("lpadmin"), W("-p"), self.destination, W("-v"), self.uri, W("-E")>>
    \o (IF self.shared
        THEN <<W("-o"), <<"printer-is-shared", "=", "true">> >>
        ELSE <<W("-o"), <<"printer-is-shared", "=", "false">> >>)
    \o (IF Truthy(self.model) THEN <<W("-m"), self.model>> ELSE <<>>)
    \o (IF Truthy(self.info) THEN <<W("-D"), self.info>> ELSE <<>>)
    \o (IF Truthy(self.location) THEN <<W("-L"), self.location>> ELSE <<>>)

\* the cmd of _install_printer
InstallPrinterCmd(self) ==
    <<W("lpadmin"), W("-p"), self.destination, W("-v"), self.uri>>
    \o (IF self.enabled THEN <<W("-E")>> ELSE <<>>)
    \o (IF self.shared
        THEN <<W("-o"), <<"printer-is-shared", "=", "true">> >>
        ELSE <<W("-o"), <<"printer-is-shared", "=", "false">> >>)
    \o (IF Truthy(self.model) THEN <<W("-m"), self.model>> ELSE <<>>)
    \o (IF Truthy(self.info) THEN <<W("-D"), self.info>> ELSE <<>>)
    \o (IF Truthy(self.location) THEN <<W("-L"), self.location>> ELSE <<>>)

\* the cmd of _install_printer_options
InstallPrinterOptionsCmd(self) ==
    <<W("lpadmin"), W("-p"), self.destination>>
    \o OptionArgs(self.options, DOMAIN self.options)

\* the cmd of _uninstall_printer
UninstallPrinterCmd(self) == <<W("lpadmin"), W("-x"), self.destination>>

\* the cmd of get_printer_cups_options
LpoptionsCmd(self) == <<W("lpoptions"), W("-p"), self.destination>>

\* the cmd of get_printer_specific_options
LpoptionsListCmd(self) == <<W("lpoptions"), W("-p"), self.destination, W("-l")>>

\* the cmd of exists
LpstatCmd(self) == <<W("lpstat"), W("-p"), self.destination>>

(* ------------------------ CUPSPrinter: parsers ------------------------ *)

\* re.split(re.compile("^Model:", re.MULTILINE), out)
IsModelMark(s, i) ==
    /\ i + 1 <= Len(s)
    /\ s[i] = "Model" /\ s[i + 1] = ":"
    /\ (i = 1 \/ s[i - 1] = "\n")

RECURSIVE ReSplitModel(_)
ReSplitModel(s) ==
    IF \E i \in 1..Len(s) : IsModelMark(s, i)
    THEN LET i == CHOOSE x \in 1..Len(s) :
                     IsModelMark(s, x) /\ \A y \in 1..(x - 1) : ~IsModelMark(s, y)
         IN <<SubSeq(s, 1, i - 1)>> \o ReSplitModel(SubSeq(s, i + 2, Len(s)))
    ELSE <<s>>

\* a slip: the name kept as listed, no "/" put before a local path
DriverRecord_NameAsListed(d) ==
    LET lines == SplitLines(d)
    IN DictOf([i \in 1..Len(lines) |->
                 LET kv == Split1(lines[i], "=")
                 IN <<Strip(kv[1]), Strip(kv[2])>>])

\* the inner loop of _get_installed_drivers: curr[kv[0]] = kv[1] per line
DriverRecord(d) ==
    LET lines == SplitLines(d)
        curr  == DictOf([i \in 1..Len(lines) |->
                          LET kv == Split1(lines[i], "=")
                          IN <<Strip(kv[1]), Strip(kv[2])>>])
        name  == IF ~Contains(curr[W("name")], SchemeSep)
                 THEN <<"/">> \o curr[W("name")]
                 ELSE curr[W("name")]
    IN [k \in DOMAIN curr |-> IF k = W("name") THEN name ELSE curr[k]]

\* _get_installed_drivers, from the output of lpinfo -l -m
get_installed_drivers(out) ==
    LET cups_drivers == ReSplitModel(out)
        kept         == SelectSeq(cups_drivers, LAMBDA d : Strip(d) # <<>>)
    IN DictOf([i \in 1..Len(kept) |->
                 LET curr == DriverRecord(kept[i]) IN <<curr[W("name")], curr>>])

RawMakeAndModel == <<"Local", " ", "Raw", " ", "Printer">>

\* _get_make_and_model: [failed |-> TRUE] stands for the fail_json call
get_make_and_model(self, lpinfo_out) ==
    IF ~Truthy(self.model)
    THEN [failed |-> FALSE, value |-> RawMakeAndModel]
    ELSE LET installed_drivers == get_installed_drivers(lpinfo_out)
         IN IF self.model \in DOMAIN installed_drivers
            THEN [failed |-> FALSE,
                  value  |-> installed_drivers[self.model][W("make-and-model")]]
            ELSE [failed |-> TRUE, value |-> None]

\* get_printer_cups_options, from the output of lpoptions -p dest
get_printer_cups_options(out) ==
    LET toks == ShlexSplit(out)
    IN DictOf([i \in 1..Len(toks) |->
                 LET kv == Split1(toks[i], "=")
                 IN IF Len(kv) = 1 THEN <<kv[1], None>> ELSE <<kv[1], kv[2]>>])

\* the current value of one option line: the first token that starts with "*"
RECURSIVE CurrentValue(_)
CurrentValue(values) ==
    IF values = <<>> THEN None
    ELSE IF Head(values) # <<>> /\ Head(Head(values)) = "*" THEN Tail(Head(values))
    ELSE CurrentValue(Tail(values))

\* get_printer_specific_options, from the output of lpoptions -p dest -l
get_printer_specific_options(out) ==
    LET lines == SplitLines(out)
    IN DictOf([i \in 1..Len(lines) |->
                 LET name   == Split1(lines[i], "/")[1]
                     rem1   == Split1(lines[i], "/")[2]
                     label  == Split1(rem1, ":")[1]
                     rem2   == Split1(rem1, ":")[2]
                     values == ShlexSplit(rem2)
                 IN <<name, [current |-> CurrentValue(values),
                             label   |-> label,
                             values  |-> values]>>])

(* ------------------------ CUPSPrinter: comparisons -------------------- *)

\* a slip: printer-info expected as given, without the destination default
ExpectedCupsOptions_InfoAsGiven(self, make_and_model) ==
    LET keys == {W("device-uri"), W("printer-make-and-model"), W("printer-location"),
                 W("printer-info"), W("printer-is-shared")}
    IN [k \in keys |->
          CASE k = W("device-uri")             -> self.uri
            [] k = W("printer-make-and-model") -> make_and_model
            [] k = W("printer-location")       -> self.location
            [] k = W("printer-info")           -> self.info
            [] k = W("printer-is-shared")      ->
                   IF self.shared THEN W("true") ELSE W("false")]

\* the dict expected_cups_options of check_cups_options
ExpectedCupsOptions(self, make_and_model) ==
    LET keys == {W("device-uri"), W("printer-make-and-model"), W("printer-location"),
                 W("printer-info"), W("printer-is-shared")}
    IN [k \in keys |->
          CASE k = W("device-uri")             -> self.uri
            [] k = W("printer-make-and-model") -> make_and_model
            [] k = W("printer-location")       -> self.location
            [] k = W("printer-info")           ->
                   IF Truthy(self.info) THEN self.info ELSE self.destination
            [] k = W("printer-is-shared")      ->
                   IF self.shared THEN W("true") ELSE W("false")]

\* a slip: an expected key missing from the live options passes
check_cups_options_SkipMissing(self, make_and_model, cups_options) ==
    LET expected_cups_options == ExpectedCupsOptions(self, make_and_model)
    IN \A k \in DOMAIN expected_cups_options :
          k \in DOMAIN cups_options => expected_cups_options[k] = cups_options[k]

\* a slip: a queue wanted disabled never passes
check_cups_options_WhenEnabled(self, make_and_model, cups_options) ==
    LET expected_cups_options == ExpectedCupsOptions(self, make_and_model)
    IN /\ self.enabled
       /\ \A k \in DOMAIN expected_cups_options :
             /\ k \in DOMAIN cups_options
             /\ expected_cups_options[k] = cups_options[k]

\* check_cups_options, given the resolved make-and-model and the parsed options
check_cups_options(self, make_and_model, cups_options) ==
    LET expected_cups_options == ExpectedCupsOptions(self, make_and_model)
    IN \A k \in DOMAIN expected_cups_options :
          /\ k \in DOMAIN cups_options
          /\ expected_cups_options[k] = cups_options[k]

\* a slip: a desired option missing from the live options passes
check_printer_options_SkipMissing(self, printer_options) ==
    LET expected_printer_options == self.options
    IN \A k \in DOMAIN expected_printer_options :
          k \in DOMAIN printer_options
             => expected_printer_options[k] = printer_options[k].current

\* check_printer_options, given the parsed driver-specific options
check_printer_options(self, printer_options) ==
    LET expected_printer_options == self.options
    IN \A k \in DOMAIN expected_printer_options :
          /\ k \in DOMAIN printer_options
          /\ expected_printer_options[k] = printer_options[k].current

\* a slip: the new text put in front of the accumulated one
Accumulate_Prepend(acc, more) == StripChars(more \o <<"\n">> \o acc, {"\n"})

\* out = (out + '\n' + more).strip('\n')
Accumulate(acc, more) == StripChars(acc \o <<"\n">> \o more, {"\n"})

(* ------------------------ the printing subsystem ---------------------- *)

\* the drivers the subsystem lists: name as listed, make-and-model
ZebraModel == <<"drv", ":", "/", "/", "/", "sample.drv", "/", "zebra.ppd">>
ZebraMakeAndModel == <<"Zebra", " ", "ZPL", " ", "Label", " ", "Printer">>
TextOnlyName == <<"textonly.ppd">>
TextOnlyMakeAndModel == <<"Generic", " ", "text-only", " ", "printer">>

EnvDrivers ==
    << [name |-> ZebraModel,   mm |-> ZebraMakeAndModel],
       [name |-> TextOnlyName, mm |-> TextOnlyMakeAndModel] >>

\* the text lpinfo -l -m prints for EnvDrivers
RECURSIVE LpinfoText(_)
LpinfoText(ds) ==
    IF ds = <<>> THEN <<>>
    ELSE <<"Model", ":", " ", " ", "name", " ", "=", " ">> \o Head(ds).name \o <<"\n">>
         \o <<" ", " ", "natural_language", " ", "=", " ", "en", "\n">>
         \o <<" ", " ", "make-and-model", " ", "=", " ">> \o Head(ds).mm \o <<"\n">>
         \o LpinfoText(Tail(ds))

LpinfoOut == LpinfoText(EnvDrivers)

\* the driver-specific options a queue can carry: label and allowed values
PpdOrder == << <<"PageSize">>, <<"Duplex">> >>
PpdLabel(name) ==
    IF name = <<"PageSize">> THEN <<"Page", " ", "Size">>
    ELSE <<"2-Sided", " ", "Printing">>
PpdValues(name) ==
    IF name = <<"PageSize">> THEN << <<"Letter">>, <<"A4">> >>
    ELSE << <<"None">>, <<"DuplexNoTumble">> >>

\* the options of a queue freshly created with the Zebra driver
ZebraDefaults ==
    [k \in {<<"PageSize">>, <<"Duplex">>} |->
        IF k = <<"PageSize">> THEN <<"Letter">> ELSE <<"None">>]

NoQueue ==
    [exists |-> FALSE, uri |-> <<>>, mm |-> <<>>, info |-> <<>>, location |-> <<>>,
     shared |-> FALSE, ppd |-> <<>>]

\* how lpoptions prints an attribute whose value is empty: the bare name,
\* name= or nothing at all; get_printer_cups_options reads all three
EmptyStyles == {"bare", "equals", "omit"}

Quote(v) == IF " " \in Range(v) THEN <<"'">> \o v \o <<"'">> ELSE v

Attr(name, v, style) ==
    IF v # <<>> THEN << <<name, "=">> \o Quote(v) >>
    ELSE IF style = "bare" THEN << <<name>> >>
    ELSE IF style = "equals" THEN << <<name, "=">> >>
    ELSE <<>>

\* the text lpoptions -p dest prints for queue q
LpoptionsOut(q, style) ==
    IF ~q.exists THEN <<>>
    ELSE Join(<< <<"copies", "=", "1">> >>
              \o Attr("device-uri", q.uri, style)
              \o Attr("printer-info", q.info, style)
              \o Attr("printer-is-shared",
                      IF q.shared THEN <<"true">> ELSE <<"false">>, style)
              \o Attr("printer-location", q.location, style)
              \o Attr("printer-make-and-model", q.mm, style),
              <<" ">>) \o <<"\n">>

\* one line of lpoptions -p dest -l
PpdLine(name, current) ==
    LET vals == PpdValues(name)
    IN name \o <<"/">> \o PpdLabel(name) \o <<":", " ">>
       \o Join([i \in 1..Len(vals) |->
                  IF vals[i] = current THEN <<"*">> \o vals[i] ELSE vals[i]], <<" ">>)
       \o <<"\n">>

\* the text lpoptions -p dest -l prints for queue q
RECURSIVE PpdLines(_, _)
PpdLines(q, names) ==
    IF names = <<>> THEN <<>>
    ELSE (IF Head(names) \in DOMAIN q.ppd
          THEN PpdLine(Head(names), q.ppd[Head(names)]) ELSE <<>>)
         \o PpdLines(q, Tail(names))

LpoptionsListOut(q) == IF ~q.exists THEN <<>> ELSE PpdLines(q, PpdOrder)

\* argv helpers of the subsystem's commands
ArgAfter(cmd, flag) ==
    IF \E i \in 1..(Len(cmd) - 1) : cmd[i] = <<flag>>
    THEN cmd[(CHOOSE i \in 1..(Len(cmd) - 1) : cmd[i] = <<flag>>) + 1]
    ELSE None

OptionPairs(cmd) ==
    {Split1(cmd[i + 1], "=") : i \in {j \in 1..(Len(cmd) - 1) : cmd[j] = <<"-o">>}}

IsRemove(cmd) == cmd[1] = <<"lpadmin">> /\ cmd[2] = <<"-x">>
IsCreate(cmd) == cmd[1] = <<"lpadmin">> /\ cmd[2] = <<"-p">> /\ ArgAfter(cmd, "-v") # None
IsSetOptions(cmd) ==
    cmd[1] = <<"lpadmin">> /\ cmd[2] = <<"-p">> /\ ArgAfter(cmd, "-v") = None
IsMutating(cmd) == cmd[1] = <<"lpadmin">>
IsStatus(cmd) == cmd[1] = <<"lpstat">>

DriverKnown(model) == \E i \in 1..Len(EnvDrivers) : EnvDrivers[i].name = model
DriverOf(model) == EnvDrivers[CHOOSE i \in 1..Len(EnvDrivers) : EnvDrivers[i].name = model]

\* the queue lpadmin -p dest -v uri ... leaves behind when it succeeds
Created(cmd) ==
    LET m == ArgAfter(cmd, "-m")
    IN [exists   |-> TRUE,
        uri      |-> ArgAfter(cmd, "-v"),
        mm       |-> IF m = None THEN RawMakeAndModel ELSE DriverOf(m).mm,
        info     |-> IF ArgAfter(cmd, "-D") = None THEN ArgAfter(cmd, "-p")
                     ELSE ArgAfter(cmd, "-D"),
        location |-> IF ArgAfter(cmd, "-L") = None THEN <<>> ELSE ArgAfter(cmd, "-L"),
        shared   |-> << <<"printer-is-shared">>, <<"true">> >> \in OptionPairs(cmd),
        ppd      |-> IF m = ZebraModel THEN ZebraDefaults ELSE <<>>]

\* the queue lpadmin -p dest -o k=v ... leaves behind when it succeeds
Configured(q, cmd) ==
    LET pairs == OptionPairs(cmd)
        keys  == {kv[1] : kv \in pairs}
    IN [q EXCEPT !.ppd =
          [k \in (DOMAIN q.ppd) \cup keys |->
              IF k \in keys THEN (CHOOSE kv \in pairs : kv[1] = k)[2] ELSE q.ppd[k]]]

\* how a mutating command can end: done (with a message on stdout) or failed
\* (with a message on stderr, the queue untouched)
Outcomes(cmd, q) ==
    IF IsCreate(cmd) /\ ArgAfter(cmd, "-m") # None /\ ~DriverKnown(ArgAfter(cmd, "-m"))
    THEN {"fail"}
    ELSE IF (IsRemove(cmd) \/ IsSetOptions(cmd)) /\ ~q.exists THEN {"fail"}
    ELSE {"ok", "fail"}

ActionWord(cmd) ==
    IF IsRemove(cmd) THEN "remove" ELSE IF IsCreate(cmd) THEN "create" ELSE "set-options"

\* module.run_command(cmd): exit status, stdout, stderr and the queue afterwards
run_command(cmd, q, style, o) ==
    IF IsStatus(cmd)
    THEN [rc |-> IF q.exists THEN 0 ELSE 1, out |-> <<>>, err |-> <<>>, queue |-> q]
    ELSE IF cmd[1] = <<"lpinfo">>
    THEN [rc |-> 0, out |-> LpinfoOut, err |-> <<>>, queue |-> q]
    ELSE IF cmd[1] = <<"lpoptions">>
    THEN [rc  |-> IF q.exists THEN 0 ELSE 1,
          out |-> IF cmd[Len(cmd)] = <<"-l">> THEN LpoptionsListOut(q)
                  ELSE LpoptionsOut(q, style),
          err |-> <<>>, queue |-> q]
    ELSE IF o = "fail"
    THEN [rc |-> 1, out |-> <<>>,
          err |-> <<"lpadmin", ":", " ", ActionWord(cmd), " ", "failed", "\n">>, queue |-> q]
    ELSE [rc  |-> 0,
          out |-> <<ActionWord(cmd), " ", "done", "\n">>,
          err |-> <<>>,
          queue |-> IF IsRemove(cmd) THEN NoQueue
                    ELSE IF IsCreate(cmd) THEN Created(cmd)
                    ELSE Configured(q, cmd)]

(* ------------------------ module parameters --------------------------- *)

Dests == { <<"zebra">> }
Uris == { None, <<"192.168.1.2">>, <<"socket", ":", "/", "/", "192.168.1.3">> }
Models == { None, ZebraModel, <<"missing.ppd">> }
Infos == { None, <<"Label", " ", "printer">> }
Locations == { None, <<>>, <<"Lab">> }
OptionMaps ==
    { <<>>,
      [k \in {<<"PageSize">>} |-> <<"A4">>],
      [k \in {<<"PageSize">>, <<"Duplex">>} |->
          IF k = <<"PageSize">> THEN <<"Letter">> ELSE <<"DuplexNoTumble">>] }

\* a driver on the local filesystem, named as lpinfo lists it and as a path
LocalModels == { TextOnlyName, <<"/">> \o TextOnlyName }

\* argument_spec of main().  The parameters are drawn from four families:
\* the target (uri, model, options, enabled) over every combination with the
\* descriptive fields at their defaults, the descriptive fields (model, info,
\* location, shared) over every combination for one target, a local driver
\* under both of its names, and state=absent.
Params ==
    [state : {"present"}, dest : Dests, uri : Uris, enabled : BOOLEAN, shared : {FALSE},
     model : Models, info : {None}, location : {None}, options : OptionMaps]
    \cup
    [state : {"present"}, dest : Dests, uri : {<<"192.168.1.2">>}, enabled : {TRUE},
     shared : BOOLEAN, model : {None, ZebraModel}, info : Infos, location : Locations,
     options : {<<>>}]
    \cup
    [state : {"present"}, dest : Dests, uri : {<<"192.168.1.2">>}, enabled : {TRUE},
     shared : {FALSE}, model : LocalModels, info : {None}, location : {None},
     options : {<<>>}]
    \cup
    [state : {"absent"}, dest : Dests, uri : Uris, enabled : {TRUE}, shared : {FALSE},
     model : {None}, info : {None}, location : {None}, options : {<<>>}]

(* ------------------------ state --------------------------------------- *)

VARIABLES
    pc,         \* where main() / install() / uninstall() stands
    params,     \* module.params
    self,       \* the CUPSPrinter object
    rc,         \* the local rc of install() / uninstall(), NoRc for None
    out,        \* the local out
    err,        \* the local err
    result,     \* what exit_json / fail_json reports
    queue,      \* the subsystem's queue named dest
    style,      \* how the subsystem prints empty attributes
    cmds,       \* every run_command call of this run: cmd, rc, out, err
    seen,       \* the queue as it was at the decision points of this run
    again       \* this run repeats the previous one, which went through cleanly

vars == <<pc, params, self, rc, out, err, result, queue, style, cmds, seen, again>>

NoResult == [kind |-> "none", changed |-> FALSE, stdout |-> None, stderr |-> None,
             msg |-> ""]

NoSeen == [start |-> NoQueue, recheck |-> NoQueue, options |-> NoQueue]

Logged(cmd, r) == [cmd |-> cmd, rc |-> r.rc, out |-> r.out, err |-> r.err]

Mutations(log) == SelectSeq(log, LAMBDA c : IsMutating(c.cmd))

\* the run that just ended exited normally and none of its actions failed
WentThrough ==
    /\ pc = "exit"
    /\ \A i \in 1..Len(cmds) : IsMutating(cmds[i].cmd) => cmds[i].rc = 0

\* before the first invocation: a host without the queue
Init ==
    /\ pc = "idle"
    /\ params = [state |-> "absent", dest |-> <<"zebra">>, uri |-> None, enabled |-> TRUE,
                 shared |-> FALSE, model |-> None, info |-> None, location |-> None,
                 options |-> <<>>]
    /\ self = CUPSPrinter(params)
    /\ rc = NoRc /\ out = <<>> /\ err = <<>>
    /\ result = NoResult
    /\ queue = NoQueue
    /\ style \in EmptyStyles
    /\ cmds = <<>>
    /\ seen = NoSeen
    /\ again = FALSE

(* ------------------------ main() and install() ------------------------ *)

\* main(): AnsibleModule(...), CUPSPrinter(module), rc/out/err reset, dispatch
Main(p) ==
    /\ pc \in {"idle", "exit", "fail"}
    /\ params' = p
    /\ self' = CUPSPrinter(p)
    /\ rc' = NoRc /\ out' = <<>> /\ err' = <<>>
    /\ result' = NoResult
    /\ cmds' = <<>>
    /\ seen' = [NoSeen EXCEPT !.start = queue]
    /\ again' = (WentThrough /\ p = params)
    /\ pc' = IF p.state = "present" THEN "install" ELSE "uninstall"
    /\ UNCHANGED <<queue, style>>

\* a slip: the test for a missing uri made against the empty string
UriMissing_EmptyString(obj) == obj.uri = <<>>

\* install(): self.uri is None
UriMissing(obj) == obj.uri = None

\* install(): if self.uri is None: fail_json
InstallRequireUri ==
    /\ pc = "install"
    /\ UriMissing(self)
    /\ result' = [NoResult EXCEPT !.kind = "fail",
                                  !.msg = "'uri' is required for present state"]
    /\ pc' = "fail"
    /\ UNCHANGED <<params, self, rc, out, err, queue, style, cmds, seen, again>>

\* install(): the first self.exists()
InstallExists ==
    /\ pc = "install"
    /\ ~UriMissing(self)
    /\ LET r == run_command(LpstatCmd(self), queue, style, "ok")
       IN /\ cmds' = Append(cmds, Logged(LpstatCmd(self), r))
          /\ pc' = IF r.rc = 0 THEN "check_cups_options" ELSE "exists_again"
    /\ UNCHANGED <<params, self, rc, out, err, result, queue, style, seen, again>>

\* install(): not self.check_cups_options(), reached only when exists() held
InstallCheckCupsOptions ==
    /\ pc = "check_cups_options"
    /\ LET info_r == run_command(LpinfoCmd, queue, style, "ok")
           mm     == get_make_and_model(self, info_r.out)
           log1   == IF Truthy(self.model)
                     THEN Append(cmds, Logged(LpinfoCmd, info_r)) ELSE cmds
           opt_r  == run_command(LpoptionsCmd(self), queue, style, "ok")
       IN IF mm.failed
          THEN /\ cmds' = log1
               /\ result' = [NoResult EXCEPT !.kind = "fail",
                                !.msg = "unable to determine printer make and model"]
               /\ pc' = "fail"
          ELSE /\ cmds' = Append(log1, Logged(LpoptionsCmd(self), opt_r))
               /\ result' = result
               /\ pc' = IF check_cups_options(self, mm.value,
                                              get_printer_cups_options(opt_r.out))
                        THEN "exists_again" ELSE "uninstall_printer"
    /\ UNCHANGED <<params, self, rc, out, err, queue, style, seen, again>>

\* install(): (rc, uninstall_out, uninstall_err) = self._uninstall_printer()
InstallUninstallPrinter(o) ==
    /\ pc = "uninstall_printer"
    /\ o \in Outcomes(UninstallPrinterCmd(self), queue)
    /\ LET r == run_command(UninstallPrinterCmd(self), queue, style, o)
       IN /\ cmds' = Append(cmds, Logged(UninstallPrinterCmd(self), r))
          /\ rc' = r.rc
          /\ out' = Accumulate(out, r.out)
          /\ err' = Accumulate(err, r.err)
          /\ queue' = r.queue
    /\ pc' = "exists_again"
    /\ UNCHANGED <<params, self, result, style, seen, again>>

\* a slip: the answer of the first exists() reused instead of asking again
InstallExistsAgain_Cached ==
    /\ pc = "exists_again"
    /\ LET r == run_command(LpstatCmd(self), queue, style, "ok")
       IN /\ cmds' = Append(cmds, Logged(LpstatCmd(self), r))
          /\ pc' = IF cmds[1].rc # 0 THEN "install_printer" ELSE "check_printer_options"
    /\ seen' = [seen EXCEPT !.recheck = queue]
    /\ UNCHANGED <<params, self, rc, out, err, result, queue, style, again>>

\* a slip: the queue taken to be there without reading the answer
InstallExistsAgain_AssumePresent ==
    /\ pc = "exists_again"
    /\ LET r == run_command(LpstatCmd(self), queue, style, "ok")
       IN /\ cmds' = Append(cmds, Logged(LpstatCmd(self), r))
          /\ pc' = "check_printer_options"
    /\ seen' = [seen EXCEPT !.recheck = queue]
    /\ UNCHANGED <<params, self, rc, out, err, result, queue, style, again>>

\* install(): if not self.exists()
InstallExistsAgain ==
    /\ pc = "exists_again"
    /\ LET r == run_command(LpstatCmd(self), queue, style, "ok")
       IN /\ cmds' = Append(cmds, Logged(LpstatCmd(self), r))
          /\ pc' = IF r.rc # 0 THEN "install_printer" ELSE "check_printer_options"
    /\ seen' = [seen EXCEPT !.recheck = queue]
    /\ UNCHANGED <<params, self, rc, out, err, result, queue, style, again>>

\* install(): (rc, install_out, install_err) = self._install_printer()
InstallInstallPrinter(o) ==
    /\ pc = "install_printer"
    /\ o \in Outcomes(InstallPrinterCmd(self), queue)
    /\ LET r == run_command(InstallPrinterCmd(self), queue, style, o)
       IN /\ cmds' = Append(cmds, Logged(InstallPrinterCmd(self), r))
          /\ rc' = r.rc
          /\ out' = Accumulate(out, r.out)
          /\ err' = Accumulate(err, r.err)
          /\ queue' = r.queue
    /\ pc' = "check_printer_options"
    /\ UNCHANGED <<params, self, result, style, seen, again>>

\* install(): if not self.check_printer_options()
InstallCheckPrinterOptions ==
    /\ pc = "check_printer_options"
    /\ LET r == run_command(LpoptionsListCmd(self), queue, style, "ok")
       IN /\ cmds' = Append(cmds, Logged(LpoptionsListCmd(self), r))
          /\ pc' = IF check_printer_options(self, get_printer_specific_options(r.out))
                   THEN "main_exit" ELSE "install_printer_options"
    /\ seen' = [seen EXCEPT !.options = queue]
    /\ UNCHANGED <<params, self, rc, out, err, result, queue, style, again>>

\* install(): (rc, options_out, options_err) = self._install_printer_options()
InstallPrinterOptions(o) ==
    /\ pc = "install_printer_options"
    /\ o \in Outcomes(InstallPrinterOptionsCmd(self), queue)
    /\ LET r == run_command(InstallPrinterOptionsCmd(self), queue, style, o)
       IN /\ cmds' = Append(cmds, Logged(InstallPrinterOptionsCmd(self), r))
          /\ rc' = r.rc
          /\ out' = Accumulate(out, r.out)
          /\ err' = Accumulate(err, r.err)
          /\ queue' = r.queue
    /\ pc' = "main_exit"
    /\ UNCHANGED <<params, self, result, style, seen, again>>

(* ------------------------ uninstall() --------------------------------- *)

\* a slip: the removal attempted whatever exists() answered
UninstallExists_Unchecked ==
    /\ pc = "uninstall"
    /\ LET r == run_command(LpstatCmd(self), queue, style, "ok")
       IN /\ cmds' = Append(cmds, Logged(LpstatCmd(self), r))
          /\ pc' = "uninstall_remove"
    /\ UNCHANGED <<params, self, rc, out, err, result, queue, style, seen, again>>

\* uninstall(): if self.exists()
UninstallExists ==
    /\ pc = "uninstall"
    /\ LET r == run_command(LpstatCmd(self), queue, style, "ok")
       IN /\ cmds' = Append(cmds, Logged(LpstatCmd(self), r))
          /\ pc' = IF r.rc = 0 THEN "uninstall_remove" ELSE "main_exit"
    /\ UNCHANGED <<params, self, rc, out, err, result, queue, style, seen, again>>

\* uninstall(): (rc, out, err) = self._uninstall_printer()
UninstallUninstallPrinter(o) ==
    /\ pc = "uninstall_remove"
    /\ o \in Outcomes(UninstallPrinterCmd(self), queue)
    /\ LET r == run_command(UninstallPrinterCmd(self), queue, style, o)
       IN /\ cmds' = Append(cmds, Logged(UninstallPrinterCmd(self), r))
          /\ rc' = r.rc
          /\ out' = r.out
          /\ err' = r.err
          /\ queue' = r.queue
    /\ pc' = "main_exit"
    /\ UNCHANGED <<params, self, result, style, seen, again>>

(* ------------------------ main(): the result -------------------------- *)

\* a slip: changed taken from the success of the last action
Changed_OnSuccess(r) == r = 0

\* result['changed'] of main(): rc is None -> False, else True
Changed(r) == r # NoRc

\* a slip: a failed last action reported through fail_json
MainExit_FailOnError ==
    /\ pc = "main_exit"
    /\ IF rc # NoRc /\ rc # 0
       THEN /\ result' = [NoResult EXCEPT !.kind = "fail", !.msg = "lpadmin failed"]
            /\ pc' = "fail"
       ELSE /\ result' = [kind    |-> "exit",
                          changed |-> Changed(rc),
                          stdout  |-> IF out # <<>> THEN out ELSE None,
                          stderr  |-> IF err # <<>> THEN err ELSE None,
                          msg     |-> ""]
            /\ pc' = "exit"
    /\ UNCHANGED <<params, self, rc, out, err, queue, style, cmds, seen, again>>

\* main(): changed from rc, stdout / stderr when non-empty, exit_json
MainExit ==
    /\ pc = "main_exit"
    /\ result' = [kind    |-> "exit",
                  changed |-> Changed(rc),
                  stdout  |-> IF out # <<>> THEN out ELSE None,
                  stderr  |-> IF err # <<>> THEN err ELSE None,
                  msg     |-> ""]
    /\ pc' = "exit"
    /\ UNCHANGED <<params, self, rc, out, err, queue, style, cmds, seen, again>>

Outcome == {"ok", "fail"}

Next ==
    \/ \E p \in Params : Main(p)
    \/ InstallRequireUri
    \/ InstallExists
    \/ InstallCheckCupsOptions
    \/ \E o \in Outcome : InstallUninstallPrinter(o)
    \/ InstallExistsAgain
    \/ \E o \in Outcome : InstallInstallPrinter(o)
    \/ InstallCheckPrinterOptions
    \/ \E o \in Outcome : InstallPrinterOptions(o)
    \/ UninstallExists
    \/ \E o \in Outcome : UninstallUninstallPrinter(o)
    \/ MainExit

Spec == Init /\ [][Next]_vars

TypeOK == pc \in {"idle", "install", "check_cups_options", "uninstall_printer",
                  "exists_again", "install_printer", "check_printer_options",
                  "install_printer_options", "uninstall", "uninstall_remove",
                  "main_exit", "exit", "fail"}

(* ------------------------ vocabulary of the properties ---------------- *)

Present == params.state = "present"
Absent == params.state = "absent"
Running == pc # "idle"
Ended == pc \in {"exit", "fail"}

Removes == SelectSeq(cmds, LAMBDA c : IsRemove(c.cmd))
Creates == SelectSeq(cmds, LAMBDA c : IsCreate(c.cmd))
SetOptions == SelectSeq(cmds, LAMBDA c : IsSetOptions(c.cmd))
StatusQueries == SelectSeq(cmds, LAMBDA c : IsStatus(c.cmd))
Actions == Mutations(cmds)

NoAction == Actions = <<>>

DriverNotFound == pc = "fail" /\ result.msg = "unable to determine printer make and model"
UriRequired == pc = "fail" /\ result.msg = "'uri' is required for present state"

\* the driver catalog the program reads, and whether it resolves the desired model
Catalog == get_installed_drivers(LpinfoOut)
ModelUnknown == Truthy(params.model) /\ params.model \notin DOMAIN Catalog

\* what lpoptions reported for the queue as it was when the run began
LiveAtStart == get_printer_cups_options(LpoptionsOut(seen.start, style))

\* the five attributes the desired state stands for
Wanted ==
    LET mm == IF ~Truthy(params.model) THEN <<"Local", " ", "Raw", " ", "Printer">>
              ELSE LET catalog == Catalog
                   IN IF params.model \in DOMAIN catalog
                      THEN catalog[params.model][<<"make-and-model">>]
                      ELSE None
    IN [k \in {<<"device-uri">>, <<"printer-make-and-model">>, <<"printer-location">>,
               <<"printer-info">>, <<"printer-is-shared">>} |->
          IF k = <<"device-uri">> THEN self.uri
          ELSE IF k = <<"printer-make-and-model">> THEN mm
          ELSE IF k = <<"printer-location">> THEN params.location
          ELSE IF k = <<"printer-info">>
               THEN (IF Truthy(params.info) THEN params.info ELSE params.dest)
          ELSE (IF params.shared THEN <<"true">> ELSE <<"false">>)]

LiveMismatch ==
    LET live   == LiveAtStart
        wanted == Wanted
    IN \E k \in DOMAIN wanted : k \notin DOMAIN live \/ live[k] # wanted[k]

\* the text without its line breaks
NoBreaks(s) == SelectSeq(s, LAMBDA c : c # "\n")

RECURSIVE OutOf(_)
OutOf(log) == IF log = <<>> THEN <<>> ELSE NoBreaks(Head(log).out) \o OutOf(Tail(log))

RECURSIVE ErrOf(_)
ErrOf(log) == IF log = <<>> THEN <<>> ELSE NoBreaks(Head(log).err) \o ErrOf(Tail(log))

Rank(cmd) == IF IsRemove(cmd) THEN 1 ELSE IF IsCreate(cmd) THEN 2 ELSE 3

(* ------------------------ properties ---------------------------------- *)

\* C1: a present-mode run that repeats, with the same parameters, a run whose
\* commands all succeeded, and whose own commands all succeed, issues no
\* remove, create or set-options action and reports changed = false.  (Stated
\* for a subsystem that prints an empty attribute as its bare name.)
C1_Idempotent ==
    (Ended /\ Present /\ again /\ self.uri # None /\ style = "bare"
       /\ \A i \in 1..Len(Actions) : Actions[i].rc = 0)
        => (pc = "exit" /\ NoAction /\ result.changed = FALSE)

\* C2: when the desired model is set and is not a key of the driver catalog,
\* a present-mode run fails with the driver-not-found error and issues no
\* mutating call, whether or not the queue exists.
C2_UnknownDriverAborts ==
    (Running /\ Present /\ self.uri # None /\ ModelUnknown)
        => (NoAction /\ (Ended => DriverNotFound))

\* C3: with no uri a present-mode run fails with the configuration error
\* before any external command; no action is issued and the queue is untouched.
C3_UriRequired ==
    (Running /\ Present /\ params.uri = None)
        => /\ cmds = <<>>
           /\ queue = seen.start
           /\ pc \in {"install", "fail"}
           /\ (Ended => UriRequired)

C3_Witness ==
    Present /\ params.uri = None /\ UriRequired /\ seen.start.exists

\* C4: in present mode changed is true exactly when at least one of remove,
\* create, set-options was invoked, whatever exit status the actions returned.
C4_ChangedIffAction ==
    (pc = "exit" /\ Present) => (result.changed <=> ~NoAction)

C4_Witness ==
    /\ pc = "exit" /\ Present /\ result.changed
    /\ \A i \in 1..Len(Actions) : Actions[i].rc # 0

\* C5: in one present-mode run remove, create and set-options are each issued
\* at most once and in that order, and the returned output and error texts are
\* the texts of the actions performed, in that order (line breaks aside).
C5_OrderAndTexts ==
    (Running /\ Present)
        => /\ \A i, j \in 1..Len(Actions) :
                 i < j => Rank(Actions[i].cmd) < Rank(Actions[j].cmd)
           /\ pc = "exit" =>
                 /\ NoBreaks(out) = OutOf(Actions)
                 /\ NoBreaks(err) = ErrOf(Actions)
                 /\ result.stdout = (IF out = <<>> THEN None ELSE out)
                 /\ result.stderr = (IF err = <<>> THEN None ELSE err)

C5_Witness ==
    /\ pc = "exit" /\ Present
    /\ Len(Actions) = 3
    /\ OutOf(Actions) # <<>>
    /\ ErrOf(Actions) # <<>>

\* C6: in absent mode exactly one status query is made, remove is issued iff
\* that query reports the queue, changed is true iff remove was issued, and
\* for a missing queue the outcome is changed = false, empty output, no action.
C6_Absent ==
    (pc = "exit" /\ Absent)
        => /\ Len(StatusQueries) = 1
           /\ Len(Removes) = (IF StatusQueries[1].rc = 0 THEN 1 ELSE 0)
           /\ Actions = Removes
           /\ result.changed <=> (Len(Removes) = 1)
           /\ ~seen.start.exists =>
                 (NoAction /\ ~result.changed
                  /\ result.stdout = None /\ result.stderr = None)

C6_Witness ==
    pc = "exit" /\ Absent /\ ~seen.start.exists /\ ~result.changed

\* C7: in present mode, if the queue exists, its five live attributes equal the
\* expected ones and no options are desired, then no action is issued and
\* changed = false, also when location is unset.
C7_MatchingQueueUntouched ==
    (Running /\ Present /\ self.uri # None /\ seen.start.exists
       /\ DOMAIN params.options = {} /\ ~LiveMismatch)
        => (NoAction /\ pc # "fail" /\ (pc = "exit" => ~result.changed))

C7_Witness ==
    /\ pc = "exit" /\ Present /\ seen.start.exists
    /\ DOMAIN params.options = {}
    /\ params.location = None
    /\ ~result.changed
    /\ ~LiveMismatch

\* C8: a present-mode run that completes issues remove iff the first status
\* query reports the queue and one of the five expected attributes is missing
\* from the live options or differs from the expected value.
C8_RemoveIffMismatch ==
    (pc = "exit" /\ Present)
        => /\ Len(Removes) <= 1
           /\ (Len(Removes) = 1) <=> (StatusQueries[1].rc = 0 /\ LiveMismatch)

C8_Witness ==
    /\ pc = "exit" /\ Present /\ Len(Removes) = 1
    /\ params.info = None /\ params.model = None
    /\ <<"printer-location">> \in DOMAIN LiveAtStart
    /\ LiveAtStart[<<"device-uri">>] = self.uri
    /\ LiveAtStart[<<"printer-info">>] = params.dest
    /\ LiveAtStart[<<"printer-make-and-model">>] = <<"Local", " ", "Raw", " ", "Printer">>

\* C9: a present-mode run that completes issues create iff the status query
\* made after the removal step reports no queue: a queue just removed is
\* created, a queue whose removal failed is not.
C9_CreateIffMissingOnRecheck ==
    (pc = "exit" /\ Present)
        => /\ Len(StatusQueries) = 2
           /\ Len(Creates) <= 1
           /\ (Len(Creates) = 1) <=> (StatusQueries[2].rc # 0)
           /\ (Len(Creates) = 1) <=> ~seen.recheck.exists
           /\ (Len(Removes) = 1 /\ Removes[1].rc = 0) => Len(Creates) = 1
           /\ (Len(Removes) = 1 /\ Removes[1].rc # 0) => Len(Creates) = 0

C9_Witness ==
    /\ pc = "exit" /\ Present
    /\ Len(Removes) = 1 /\ Removes[1].rc = 0 /\ Len(Creates) = 1

\* C10: a present-mode run that completes issues set-options iff some desired
\* option is missing from the live driver options or has another current
\* value; the call is single and carries every desired key=value pair.
C10_SetOptionsIffDiffers ==
    (pc = "exit" /\ Present)
        => /\ Len(SetOptions) <= 1
           /\ (Len(SetOptions) = 1) <=>
                 (\E k \in DOMAIN params.options :
                     \/ ~seen.options.exists
                     \/ k \notin DOMAIN seen.options.ppd
                     \/ seen.options.ppd[k] # params.options[k])
           /\ Len(SetOptions) = 1 =>
                 /\ OptionPairs(SetOptions[1].cmd)
                       = {<<k, params.options[k]>> : k \in DOMAIN params.options}
                 /\ Len(SetOptions[1].cmd) = 3 + 2 * Cardinality(DOMAIN params.options)

C10_Witness ==
    /\ pc = "exit" /\ Present /\ Len(SetOptions) = 1
    /\ seen.options.exists
    /\ \E k \in DOMAIN params.options :
          k \in DOMAIN seen.options.ppd /\ seen.options.ppd[k] = params.options[k]

\* C11: the device URI compared and passed to create is the given uri when it
\* contains "://" and "lpd://" + uri + "/" otherwise; uri 192.168.1.2 with no
\* queue leads to a create with lpd://192.168.1.2/ and changed = true.
C11_ResolvedUri ==
    (Running /\ Present /\ params.uri # None)
        => LET resolved == IF Contains(params.uri, <<":", "/", "/">>) THEN params.uri
                           ELSE <<"lpd", ":", "/", "/">> \o params.uri \o <<"/">>
           IN /\ \A i \in 1..Len(Creates) : ArgAfter(Creates[i].cmd, "-v") = resolved
              /\ (pc = "exit" /\ seen.start.exists /\ seen.start.uri # resolved)
                    => Len(Removes) = 1
              /\ (pc = "exit" /\ params.uri = <<"192.168.1.2">> /\ ~seen.start.exists)
                    => /\ Len(Creates) = 1
                       /\ ArgAfter(Creates[1].cmd, "-v")
                             = <<"lpd", ":", "/", "/", "192.168.1.2", "/">>
                       /\ result.changed

C11_Witness ==
    /\ pc = "exit" /\ Present /\ params.uri = <<"192.168.1.2">>
    /\ params.model = ZebraModel
    /\ ~seen.start.exists
    /\ Len(Creates) = 1
    /\ ArgAfter(Creates[1].cmd, "-v") = <<"lpd", ":", "/", "/", "192.168.1.2", "/">>
    /\ result.changed

\* what the run read from lpoptions -p dest -l
Listings ==
    SelectSeq(cmds, LAMBDA c : c.cmd[1] = <<"lpoptions">> /\ c.cmd[Len(c.cmd)] = <<"-l">>)

Unstarred(tok) == IF tok # <<>> /\ Head(tok) = "*" THEN Tail(tok) ELSE tok

\* C12: every line name/label: tokens parses into a record whose current value
\* is the first "*" token without its prefix, whose label is the text between
\* the first "/" and the following ":", and whose allowed values are all the
\* tokens in order without any "*" prefix; PageSize/Page Size: *Letter A4
\* yields current Letter, label Page Size, values [Letter, A4].
C12_ParsedOptions ==
    (Present /\ Listings # <<>>)
        => LET text   == Listings[1].out
               parsed == get_printer_specific_options(text)
               lines  == SplitLines(text)
           IN /\ \A i \in 1..Len(lines) :
                    LET name == Split1(lines[i], "/")[1]
                        toks == ShlexSplit(Split1(Split1(lines[i], "/")[2], ":")[2])
                    IN /\ name \in DOMAIN parsed
                       /\ parsed[name].label = Split1(Split1(lines[i], "/")[2], ":")[1]
                       /\ parsed[name].values = [j \in 1..Len(toks) |-> Unstarred(toks[j])]
                       /\ \A j \in 1..Len(toks) :
                             (Head(toks[j]) = "*" /\ \A h \in 1..(j - 1) : Head(toks[h]) # "*")
                                => parsed[name].current = Tail(toks[j])
              /\ (\E i \in 1..Len(lines) :
                     lines[i] = <<"PageSize", "/", "Page", " ", "Size", ":", " ",
                                  "*", "Letter", " ", "A4">>)
                    => parsed[<<"PageSize">>]
                          = [current |-> <<"Letter">>,
                             label   |-> <<"Page", " ", "Size">>,
                             values  |-> << <<"Letter">>, <<"A4">> >>]

\* what the run read from lpinfo -l -m
DriverListings == SelectSeq(cmds, LAMBDA c : c.cmd = LpinfoCmd)

\* the catalog key of a listed driver name
KeyOf(name) == IF Contains(name, <<":", "/", "/">>) THEN name ELSE <<"/">> \o name

\* C13: every driver record is stored under its name when the name contains
\* "://" and under "/" + name otherwise, and a desired model is resolved only
\* by equality with such a key.
C13_CatalogKeys ==
    (Present /\ DriverListings # <<>>)
        => LET drivers == get_installed_drivers(DriverListings[1].out)
               keys    == {KeyOf(EnvDrivers[i].name) : i \in 1..Len(EnvDrivers)}
           IN /\ DOMAIN drivers = keys
              /\ \A i \in 1..Len(EnvDrivers) :
                    /\ drivers[KeyOf(EnvDrivers[i].name)][<<"name">>]
                          = KeyOf(EnvDrivers[i].name)
                    /\ drivers[KeyOf(EnvDrivers[i].name)][<<"make-and-model">>]
                          = EnvDrivers[i].mm
              /\ <<"/", "textonly.ppd">> \in DOMAIN drivers
              /\ <<"textonly.ppd">> \notin DOMAIN drivers
              /\ <<"drv", ":", "/", "/", "/", "sample.drv", "/", "zebra.ppd">>
                    \in DOMAIN drivers
              /\ Ended => (DriverNotFound <=> params.model \notin keys)

C13_Witness ==
    /\ pc = "exit" /\ Present /\ DriverListings # <<>>
    /\ params.model = <<"/", "textonly.ppd">>

IsPrefix(a, b) == Len(a) <= Len(b) /\ SubSeq(b, 1, Len(a)) = a

\* C14: in a present-mode run whose remove succeeds and whose create then
\* fails, the run ends with the queue absent, no second create or remove is
\* attempted, the run is not aborted as an error, and changed = true is
\* reported with the output of both actions.
C14_NoRollbackNoRetry ==
    (Present /\ Len(Removes) >= 1 /\ Len(Creates) >= 1
       /\ Removes[1].rc = 0 /\ Creates[1].rc # 0)
        => /\ Len(Removes) = 1 /\ Len(Creates) = 1
           /\ pc # "fail"
           /\ ~queue.exists
           /\ pc = "exit" =>
                 /\ result.kind = "exit" /\ result.changed
                 /\ result.stdout # None /\ result.stderr # None
                 /\ IsPrefix(OutOf(<<Removes[1], Creates[1]>>), NoBreaks(result.stdout))
                 /\ IsPrefix(ErrOf(<<Removes[1], Creates[1]>>), NoBreaks(result.stderr))

C14_Witness ==
    /\ pc = "exit" /\ Present
    /\ Len(Removes) = 1 /\ Removes[1].rc = 0
    /\ Len(Creates) = 1 /\ Creates[1].rc # 0
    /\ seen.start.exists /\ ~queue.exists
    /\ result.changed

Flags(cmd, flag) == {i \in 1..Len(cmd) : cmd[i] = <<flag>>}

\* a create command that carries the name, the URI, one shared pair, and the
\* enable flag, driver, info and location exactly as the four booleans say
CreateCarries(cmd, enable, model, info, location) ==
    /\ ArgAfter(cmd, "-p") = params.dest
    /\ ArgAfter(cmd, "-v") = self.uri
    /\ Cardinality(Flags(cmd, "-o")) = 1
    /\ ArgAfter(cmd, "-o") = (IF params.shared
                              THEN <<"printer-is-shared", "=", "true">>
                              ELSE <<"printer-is-shared", "=", "false">>)
    /\ (Flags(cmd, "-E") # {}) <=> enable
    /\ IF model THEN ArgAfter(cmd, "-m") = params.model ELSE Flags(cmd, "-m") = {}
    /\ IF info THEN ArgAfter(cmd, "-D") = params.info ELSE Flags(cmd, "-D") = {}
    /\ IF location THEN ArgAfter(cmd, "-L") = params.location ELSE Flags(cmd, "-L") = {}
    /\ Len(cmd) = 7 + (IF enable THEN 1 ELSE 0) + (IF model THEN 2 ELSE 0)
                    + (IF info THEN 2 ELSE 0) + (IF location THEN 2 ELSE 0)

\* C15 as stated: the create action carries the name, the resolved URI and
\* one shared pair; the enable flag iff enabled, the driver iff model is set,
\* the info iff info is set, the location iff location is set.
C15_CreateCarriesWhatIsSet ==
    (Present /\ Len(Creates) >= 1)
        => CreateCarries(Creates[1].cmd, params.enabled, params.model # None,
                         params.info # None, params.location # None)

\* C15 amended: the same, with driver, info and location carried iff the
\* parameter is set to a non-empty text.
C15_CreateCarriesWhatIsNonEmpty ==
    (Present /\ Len(Creates) >= 1)
        => CreateCarries(Creates[1].cmd, params.enabled,
                         params.model # None /\ params.model # <<>>,
                         params.info # None /\ params.info # <<>>,
                         params.location # None /\ params.location # <<>>)

C15_Witness ==
    /\ Present /\ Len(Creates) = 1
    /\ params.location = <<>> /\ params.info # None /\ params.model # None
    /\ Flags(Creates[1].cmd, "-L") = {}
    /\ Flags(Creates[1].cmd, "-D") # {}

\* every action of the run returned 0
AllSucceeded == \A i \in 1..Len(Actions) : Actions[i].rc = 0

\* C16: a present-mode run that completes with no configuration error and
\* whose actions all succeeded leaves the queue in existence, whether the
\* queue was absent, matching or mismatching at the start.
C16_Convergence ==
    (pc = "exit" /\ Present /\ AllSucceeded) => queue.exists

C16_Witness ==
    /\ pc = "exit" /\ Present /\ AllSucceeded
    /\ seen.start.exists /\ LiveMismatch
    /\ Len(Removes) = 1 /\ Len(Creates) = 1
    /\ queue.exists

\* C17: in present mode, whenever set-options is invoked the queue exists in
\* the subsystem at the moment of the call, also when the create failed.
C17_SetOptionsOnExistingQueue ==
    (Present /\ Len(SetOptions) >= 1) => seen.options.exists

\* the object built from the same parameters with enabled the other way
OtherEnabled == CUPSPrinter([params EXCEPT !.enabled = ~params.enabled])

\* the commands install() runs for obj when both checks pass, answered by q
QueryLog(obj, q) ==
    LET ask(cmd) == Logged(cmd, run_command(cmd, q, style, "ok"))
    IN <<ask(LpstatCmd(obj))>>
       \o (IF Truthy(obj.model) THEN <<ask(LpinfoCmd)>> ELSE <<>>)
       \o <<ask(LpoptionsCmd(obj)), ask(LpstatCmd(obj)), ask(LpoptionsListCmd(obj))>>

\* every desired driver option is the current value of the queue at the start
DriverOptionsMatchAtStart ==
    \A k \in DOMAIN params.options :
        k \in DOMAIN seen.start.ppd /\ seen.start.ppd[k] = params.options[k]

\* C18: for an existing queue whose five expected options and desired driver
\* options all match, a present-mode run issues no action and reports
\* changed = false whatever enabled says; what it ran and what it reports are
\* what the run with enabled the other way runs and reports.
C18_EnabledNotCompared ==
    (Running /\ Present /\ self.uri # None /\ seen.start.exists
       /\ DriverOptionsMatchAtStart /\ ~LiveMismatch)
        => /\ NoAction
           /\ pc # "fail"
           /\ pc = "exit" =>
                 /\ ~result.changed
                 /\ result = [NoResult EXCEPT !.kind = "exit"]
                 /\ cmds = QueryLog(OtherEnabled, seen.start)

C18_Witness ==
    /\ pc = "exit" /\ Present /\ seen.start.exists
    /\ ~params.enabled
    /\ DOMAIN params.options # {}
    /\ DriverOptionsMatchAtStart /\ ~LiveMismatch
    /\ NoAction /\ ~result.changed

====
